---- MODULE Spec2Model ----
(***************************************************************************)
(* Model of the NFT contract of src/nft/src/lib.rs (a NEAR smart contract  *)
(* built on near_contract_standards::NonFungibleToken).                    *)
(*                                                                         *)
(* Execution model (NEAR runtime): every method call runs to completion;   *)
(* a panic (require!, assert!, unwrap on None, checked arithmetic) reverts *)
(* every state write of the call and drops the promises it created.  A     *)
(* promise created by a call that returns is executed later by the         *)
(* runtime; a callback attached with .then() runs exactly once after the   *)
(* promise it depends on has settled, whatever the result.                 *)
(***************************************************************************)
EXTENDS Integers, Sequences, FiniteSets, Bags, TLC

\* ------------------------------------------------------------------ bounds
\* Mints of one run when total_supply = 0 leaves index unbounded: of the runs
\* of mint, burn and transfer alone, and of the runs with every method and
\* callback interleaved.
MaxIndex == 2
MaxIndexFull == 2
\* Amount of mint_currency sent to the contract in one run, in units of mint_price.
MaxFtUnits == 1
\* nft_transfer_call callbacks in flight at one time.
MaxPendingTransfers == 1
\* Transfers dispatched by withdraw and not yet settled.
MaxInFlight == 1
\* Storage collateral deposited in one run, in units of STORAGE_PER_SALE.
MaxStorageUnits == 2

\* ------------------------------------------------------------- the universe
Accounts == {"alice", "bob", "carol"}
\* the accounts that call when every method is in play
Users == {"alice", "bob"}
TokenIds == {"t1", "t2"}
NONE == "none"
\* env::current_account_id()
current_id == "nft"
\* the fungible token contract named by mint_currency = Some(..)
FtContract == "ft"

\* u128::MAX. Only a wrapped subtraction produces it, and it is only ever a
\* divisor of an amount below it; the model's amounts are all far below the
\* largest integer of the checker, which stands for it.
U128_MAX == 2147483647

\* minimum_needed = NEAR_PER_STORAGE * contract_bytes + VAULT_STORAGE: a fixed
\* positive number of the build (about 10^24).  The code only compares the
\* attached deposit with it and transfers it; a small number stands for it.
minimum_needed == 10

\* STORAGE_PER_SALE = 1000 * NEAR_PER_STORAGE, counted here in units of
\* NEAR_PER_STORAGE (10^19 yoctoNEAR).  The code only compares the attached
\* deposit with it.
STORAGE_PER_SALE == 1000

\* Configurations given to `new` (owner_id, mint_price, mint_currency,
\* payment_split_percent, total_supply, burn_fee, royalty).
Configs ==
    { [owner_id |-> "alice", mint_price |-> 100, mint_currency |-> NONE,
       payment_split_percent |-> 80, total_supply |-> 0, burn_fee |-> 503,
       royalty |-> 250],
      [owner_id |-> "alice", mint_price |-> 7, mint_currency |-> FtContract,
       payment_split_percent |-> 33, total_supply |-> 2, burn_fee |-> 9000,
       royalty |-> 3333] }

\* The royalties (in 1/10000) the royalty split is computed for.
Royalties == {0, 1, 250, 3333, 5000, 9999, 10000}

\* The configurations with each of these royalties.
RoyaltyConfigs ==
    { [c EXCEPT !.royalty = r] : c \in Configs, r \in Royalties }

\* Option<U128>: <<>> is None, <<b>> is Some(b).
NoBalance == <<>>

\* The sale balances nft_transfer_payout is called with.
SaleBalances ==
    {NoBalance, <<0>>, <<1>>, <<3>>, <<9999>>, <<10000>>, <<10001>>, <<123457>>}

\* The balances of the runs where the payout is not the matter.
SomeSaleBalances == {NoBalance, <<10001>>}

VARIABLES
    owner_id,               \* tokens.owner_id: the collection owner
    index,
    total_supply,
    mint_price,
    mint_currency,
    payment_split_percent,
    burn_fee,
    royalty,
    owner_by_id,            \* tokens.owner_by_id: token id -> owner (NONE: no token)
    tokens_per_owner,       \* tokens.tokens_per_owner: owner -> set of ids ({}: no bucket)
    approvals_by_id,        \* tokens.approvals_by_id: token id -> approved accounts
    storage_deposits,
    ft_deposits,
    balances_by_owner,
    holders,
    receipts,               \* bag of callbacks the runtime has still to run
    in_flight,              \* bag of the transfers of withdraw not yet settled
    resolve_calls,          \* mint number -> resolve_create invocations so far
    vaults,                 \* the vault accounts a provisioning chain was issued for
    last                    \* the last call: its arguments, outcome and promises

config == <<owner_id, total_supply, mint_price, mint_currency,
            payment_split_percent, burn_fee, royalty>>
nft == <<owner_by_id, tokens_per_owner, approvals_by_id>>
vars == <<owner_id, index, total_supply, mint_price, mint_currency,
          payment_split_percent, burn_fee, royalty, owner_by_id, tokens_per_owner,
          approvals_by_id, storage_deposits, ft_deposits, balances_by_owner,
          holders, receipts, in_flight, resolve_calls, vaults, last>>

\* ----------------------------------------------------------------- helpers
RECURSIVE SumOver(_, _)
SumOver(f, S) ==
    IF S = {} THEN 0
    ELSE LET x == CHOOSE y \in S : TRUE IN f[x] + SumOver(f, S \ {x})

\* format!("{}.{}", token_id, current_id): the pair stands for the joined name.
VaultAccountId(token_id) == <<token_id, current_id>>

\* The callbacks (.then) of a call's promises, handed to the runtime on return.
RECURSIVE Callbacks(_)
Callbacks(promises) ==
    IF promises = <<>> THEN EmptyBag
    ELSE LET p == Head(promises) IN
         (IF p.then = <<>> THEN EmptyBag ELSE SetToBag({p.then[1]}))
         (+) Callbacks(Tail(promises))

\* ------------------------------------------------------------------- new
\* The state `new` returns, called with one of the configurations cs.
InitState(cs) ==
    /\ \E c \in cs :
          /\ owner_id = c.owner_id
          /\ mint_price = c.mint_price
          /\ mint_currency = c.mint_currency
          /\ payment_split_percent = c.payment_split_percent
          /\ total_supply = c.total_supply
          /\ burn_fee = c.burn_fee
          /\ royalty = c.royalty
    /\ index = 0
    /\ owner_by_id = [t \in TokenIds |-> NONE]
    /\ tokens_per_owner = [a \in Accounts |-> {}]
    /\ approvals_by_id = [t \in TokenIds |-> {}]
    /\ storage_deposits = [a \in Accounts |-> 0]
    /\ ft_deposits = [a \in Accounts |-> 0]
    /\ balances_by_owner = [a \in Accounts |-> 0]
    /\ holders = {}
    /\ receipts = EmptyBag
    /\ in_flight = EmptyBag
    /\ resolve_calls = <<>>
    /\ vaults = {}
    /\ last = [op |-> "new", ok |-> TRUE]

Init == InitState(Configs)

InitRoyalty == InitState(RoyaltyConfigs)

\* ---------------------------------------------------------------- nft_mint
\* Mutant: the ft_deposits entry of the caller is not looked at.
PaymentOk_NoFtCheck(caller, deposit) ==
    IF mint_currency # NONE
    THEN deposit >= minimum_needed
    ELSE deposit >= mint_price + minimum_needed

\* The payment check of nft_mint.
PaymentOk(caller, deposit) ==
    IF mint_currency # NONE
    THEN deposit >= minimum_needed /\ ft_deposits[caller] >= mint_price
    ELSE deposit >= mint_price + minimum_needed

vault_amount == (mint_price * payment_split_percent) \div 100

\* Mutant: the owner's share is computed as a percentage of its own.
owner_amount_Percent == (mint_price * (100 - payment_split_percent)) \div 100

\* mint_price.checked_sub(vault_amount): defined when vault_amount <= mint_price
owner_amount == mint_price - vault_amount

\* Mutant: the cap is checked on the index before the increment.
SupplyOk_PreIncrement(index1) == total_supply > 0 => total_supply >= index1 - 1

\* the supply cap, checked on the incremented index
SupplyOk(index1) == total_supply > 0 => total_supply >= index1

\* The promise nft_mint builds: the create/deploy/fund/init batch on the vault
\* account, then resolve_create on this contract.  `mint` is the number of the
\* mint (the incremented index); it only tells the callbacks of a run apart.
VaultChain(token_id, mint) ==
    [receiver_id |-> VaultAccountId(token_id),
     actions |-> <<"create_account", "deploy_contract", "transfer", "init">>,
     amount |-> minimum_needed,
     then |-> << [method |-> "resolve_create",
                  mint |-> mint,
                  vault_account_id |-> VaultAccountId(token_id),
                  collection_owner |-> owner_id,
                  owner_amount |-> owner_amount,
                  vault_amount |-> vault_amount] >>]

MintPromises(token_id, mint) == << VaultChain(token_id, mint) >>

\* The error nft_mint panics with, "" when it returns.
MintError(caller, token_id, deposit) ==
    IF ~PaymentOk(caller, deposit) THEN "Insufficient price to mint"
    ELSE IF vault_amount > mint_price THEN "checked_sub"
    ELSE IF ~SupplyOk(index + 1) THEN "Exceeded total supply"
    ELSE IF owner_by_id[token_id] # NONE THEN "token_id must be unique"
    ELSE ""

\* The deposits a caller attaches to nft_mint: each side of the check in force.
MintDeposits ==
    IF mint_currency # NONE
    THEN {minimum_needed - 1, minimum_needed}
    ELSE {minimum_needed + mint_price - 1, minimum_needed + mint_price}

\* Mutant: the mint spends mint_price of the caller's deposited currency.
MintFtDeposits_Spends(caller) ==
    IF mint_currency # NONE
    THEN [ft_deposits EXCEPT ![caller] = @ - mint_price]
    ELSE ft_deposits

\* ft_deposits after a mint: the payment check reads the entry, nothing writes it.
MintFtDeposits(caller) == ft_deposits

\* The holders set nft_mint writes (before any check).
MintHolders(caller, token_owner_id) == holders \cup {caller}

nft_mint(caller, token_id, token_owner_id, deposit) ==
    LET err == MintError(caller, token_id, deposit)
        promises == MintPromises(token_id, index + 1)
    IN  /\ IF err # ""
           THEN /\ last' = [op |-> "nft_mint", ok |-> FALSE, error |-> err]
                /\ UNCHANGED <<index, nft, ft_deposits, holders, receipts,
                               resolve_calls, vaults>>
           ELSE /\ holders' = MintHolders(caller, token_owner_id)
                /\ vaults' = vaults \cup {VaultAccountId(token_id)}
                /\ ft_deposits' = MintFtDeposits(caller)
                /\ index' = index + 1
                /\ owner_by_id' = [owner_by_id EXCEPT ![token_id] = token_owner_id]
                /\ tokens_per_owner' =
                      [tokens_per_owner EXCEPT ![token_owner_id] = @ \cup {token_id}]
                /\ UNCHANGED approvals_by_id
                /\ receipts' = receipts (+) Callbacks(promises)
                /\ resolve_calls' = Append(resolve_calls, 0)
                /\ last' = [op |-> "nft_mint", ok |-> TRUE, caller |-> caller,
                            token_id |-> token_id, token_owner_id |-> token_owner_id,
                            deposit |-> deposit, promises |-> promises]
        /\ UNCHANGED <<config, storage_deposits, balances_by_owner, in_flight>>

\* ---------------------------------------------------------- resolve_create
\* The fund-routing calls of resolve_create.
RoutingPromises(cb) ==
    IF mint_currency # NONE
    THEN << [receiver_id |-> <<mint_currency>>, method |-> "storage_deposit",
             to |-> cb.vault_account_id, amount |-> 0, then |-> <<>>],
            [receiver_id |-> <<mint_currency>>, method |-> "ft_transfer_call",
             to |-> cb.vault_account_id, amount |-> cb.vault_amount, then |-> <<>>],
            [receiver_id |-> <<mint_currency>>, method |-> "ft_transfer",
             to |-> <<cb.collection_owner>>, amount |-> cb.owner_amount, then |-> <<>>] >>
    ELSE << [receiver_id |-> <<cb.collection_owner>>, method |-> "transfer",
             to |-> <<cb.collection_owner>>, amount |-> cb.owner_amount, then |-> <<>>],
            [receiver_id |-> cb.vault_account_id, method |-> "deposit_near",
             to |-> cb.vault_account_id, amount |-> cb.vault_amount, then |-> <<>>] >>

\* Mutant: nothing is routed when the provisioning chain failed.
ResolvePromises_SkipOnFailure(cb, chain_ok) ==
    IF chain_ok THEN RoutingPromises(cb) ELSE <<>>

\* The promises resolve_create issues; chain_ok is the result of the promise
\* it was attached to, which the code never reads.
ResolvePromises(cb, chain_ok) == RoutingPromises(cb)

\* Mutant: a failed provisioning chain takes the token back.
resolve_create_Rollback(cb, chain_ok) ==
    LET promises == ResolvePromises(cb, chain_ok)
        token_id == cb.vault_account_id[1]
        token_owner == owner_by_id[token_id]
    IN  /\ BagIn(cb, receipts)
        /\ cb.method = "resolve_create"
        /\ receipts' = (receipts (-) SetToBag({cb})) (+) Callbacks(promises)
        /\ resolve_calls' = [resolve_calls EXCEPT ![cb.mint] = @ + 1]
        /\ last' = [op |-> "resolve_create", ok |-> TRUE, cb |-> cb,
                    chain_ok |-> chain_ok, promises |-> promises]
        /\ IF chain_ok \/ token_owner = NONE
           THEN UNCHANGED <<index, nft>>
           ELSE /\ index' = index - 1
                /\ owner_by_id' = [owner_by_id EXCEPT ![token_id] = NONE]
                /\ tokens_per_owner' =
                      [tokens_per_owner EXCEPT ![token_owner] = @ \ {token_id}]
                /\ UNCHANGED approvals_by_id
        /\ UNCHANGED <<config, storage_deposits, vaults, ft_deposits,
                       balances_by_owner, holders, in_flight>>

resolve_create(cb, chain_ok) ==
    LET promises == ResolvePromises(cb, chain_ok) IN
    /\ BagIn(cb, receipts)
    /\ cb.method = "resolve_create"
    /\ receipts' = (receipts (-) SetToBag({cb})) (+) Callbacks(promises)
    /\ resolve_calls' = [resolve_calls EXCEPT ![cb.mint] = @ + 1]
    /\ last' = [op |-> "resolve_create", ok |-> TRUE, cb |-> cb,
                chain_ok |-> chain_ok, promises |-> promises]
    /\ UNCHANGED <<config, storage_deposits, vaults, index, nft, ft_deposits,
                   balances_by_owner, holders, in_flight>>

\* --------------------------------------------------------- storage_deposit
\* account_id.unwrap_or_else(env::predecessor_account_id)
StorageAccountId(caller, account_id) ==
    IF account_id = NONE THEN caller ELSE account_id

\* Mutant: any attached deposit is accepted.
StorageDepositError_NoMinimum(deposit) == ""

\* The error storage_deposit panics with, "" when none.
StorageDepositError(deposit) ==
    IF deposit >= STORAGE_PER_SALE THEN ""
    ELSE "Requires minimum deposit of STORAGE_PER_SALE"

\* The deposits a caller attaches to storage_deposit: each side of the minimum.
StorageDepositAmounts == {STORAGE_PER_SALE - 1, STORAGE_PER_SALE}

storage_deposit(caller, account_id, deposit) ==
    LET err == StorageDepositError(deposit)
        storage_account_id == StorageAccountId(caller, account_id)
    IN  /\ err = "" =>
              SumOver(storage_deposits, Accounts) + deposit
                 <= MaxStorageUnits * STORAGE_PER_SALE
        /\ IF err # ""
           THEN /\ last' = [op |-> "storage_deposit", ok |-> FALSE, error |-> err]
                /\ UNCHANGED storage_deposits
           ELSE /\ storage_deposits' =
                      [storage_deposits EXCEPT ![storage_account_id] = @ + deposit]
                /\ last' = [op |-> "storage_deposit", ok |-> TRUE, caller |-> caller,
                            account_id |-> account_id, deposit |-> deposit]
        /\ UNCHANGED <<config, vaults, index, nft, ft_deposits,
                       balances_by_owner, holders, receipts, in_flight,
                       resolve_calls>>

\* -------------------------------------------------------------------- burn
\* Mutant: the caller is not compared with the token's owner.
BurnError_NoOwnerCheck(caller, token_id) ==
    IF owner_by_id[token_id] = NONE THEN "unwrap on None" ELSE ""

\* The error burn panics with before it writes anything, "" when none.
BurnError(caller, token_id) ==
    IF owner_by_id[token_id] = NONE THEN "unwrap on None"
    ELSE IF caller # owner_by_id[token_id] THEN "You don't own this NFT"
    ELSE ""

\* owner_tokens.is_empty() after owner_tokens.remove(&token_id)
BurnRemoved(owner, token_id) == tokens_per_owner[owner] \ {token_id} = {}

\* self.holders after the tokens_per_owner block of burn
BurnHolders(owner, token_id) ==
    IF BurnRemoved(owner, token_id) THEN holders \ {owner} ELSE holders

\* holders_count -= 1 on a u128 that is 0: the build either panics (overflow
\* checks on) or wraps (overflow checks off).
BurnUnderflow(owner, token_id) ==
    ~BurnRemoved(owner, token_id) /\ Cardinality(BurnHolders(owner, token_id)) = 0

\* Mutant: the owner who was not removed is still counted.
HoldersCount_NoSub(len, removed) == len

\* holders_count: self.holders.len(), less one if the owner was not removed
HoldersCount(len, removed) ==
    IF removed THEN len
    ELSE IF len = 0 THEN U128_MAX
    ELSE len - 1

AmountToHolder(holders_count) ==
    IF holders_count = 0 THEN 0
    ELSE ((mint_price * payment_split_percent * burn_fee) \div 20000) \div holders_count

\* the accounts the loop over self.holders credits
BurnCredited(holders1, owner) == {other \in holders1 : other # owner}

\* Mutant: the vault is left alone when no holder remains.
BurnPromises_OnlyWithHolders(owner, token_id) ==
    IF BurnHolders(owner, token_id) = {} THEN <<>>
    ELSE << [receiver_id |-> VaultAccountId(token_id), method |-> "withdraw",
             to |-> <<owner>>, amount |-> burn_fee, then |-> <<>>] >>

\* The withdraw call on the vault of the burned token.
BurnPromises(owner, token_id) ==
    << [receiver_id |-> VaultAccountId(token_id), method |-> "withdraw",
        to |-> <<owner>>, amount |-> burn_fee, then |-> <<>>] >>

\* wraps: whether the build wraps on arithmetic overflow (it panics otherwise)
burn(caller, token_id, wraps) ==
    LET err == BurnError(caller, token_id)
        removed == BurnRemoved(caller, token_id)
        holders1 == BurnHolders(caller, token_id)
        holders_count == HoldersCount(Cardinality(holders1), removed)
        amount_to_holder == AmountToHolder(holders_count)
        credited == BurnCredited(holders1, caller)
        promises == BurnPromises(caller, token_id)
    IN  IF err # ""
        THEN /\ last' = [op |-> "burn", ok |-> FALSE, error |-> err]
             /\ UNCHANGED <<config, storage_deposits, vaults, index, nft,
                            ft_deposits, balances_by_owner, holders, receipts,
                            in_flight, resolve_calls>>
        ELSE IF BurnUnderflow(caller, token_id) /\ ~wraps
        THEN /\ last' = [op |-> "burn", ok |-> FALSE,
                         error |-> "attempt to subtract with overflow"]
             /\ UNCHANGED <<config, storage_deposits, vaults, index, nft,
                            ft_deposits, balances_by_owner, holders, receipts,
                            in_flight, resolve_calls>>
        ELSE /\ owner_by_id' = [owner_by_id EXCEPT ![token_id] = NONE]
             /\ tokens_per_owner' = [tokens_per_owner EXCEPT ![caller] = @ \ {token_id}]
             /\ approvals_by_id' = [approvals_by_id EXCEPT ![token_id] = {}]
             /\ holders' = holders1
             /\ balances_by_owner' =
                   [a \in Accounts |->
                       IF a \in credited
                       THEN balances_by_owner[a] + amount_to_holder
                       ELSE balances_by_owner[a]]
             /\ receipts' = receipts (+) Callbacks(promises)
             /\ last' = [op |-> "burn", ok |-> TRUE, caller |-> caller,
                         token_id |-> token_id, removed |-> removed,
                         holders_count |-> holders_count,
                         amount_to_holder |-> amount_to_holder,
                         promises |-> promises]
             /\ UNCHANGED <<config, storage_deposits, vaults, index,
                            ft_deposits, in_flight, resolve_calls>>

\* ---------------------------------------------------------------- withdraw
WithdrawPromises(owner, balance) ==
    IF balance > 0
    THEN IF mint_currency # NONE
         THEN << [receiver_id |-> <<mint_currency>>, method |-> "ft_transfer",
                  to |-> <<owner>>, amount |-> balance, then |-> <<>>] >>
         ELSE << [receiver_id |-> <<owner>>, method |-> "transfer",
                  to |-> <<owner>>, amount |-> balance, then |-> <<>>] >>
    ELSE <<>>

\* Mutant: the entry is not zeroed.
WithdrawBalances_KeepsEntry(owner, balance) == balances_by_owner

\* balances_by_owner after withdraw
WithdrawBalances(owner, balance) ==
    IF balance > 0
    THEN [balances_by_owner EXCEPT ![owner] = 0]
    ELSE balances_by_owner

\* The promises of a call that carry no callback: the runtime executes them
\* and tells the contract nothing of the result.
RECURSIVE Detached(_)
Detached(promises) ==
    IF promises = <<>> THEN EmptyBag
    ELSE LET p == Head(promises) IN
         (IF p.then = <<>> THEN SetToBag({p}) ELSE EmptyBag)
         (+) Detached(Tail(promises))

withdraw(caller) ==
    LET balance == balances_by_owner[caller]
        promises == WithdrawPromises(caller, balance)
    IN  /\ balance > 0 => BagCardinality(in_flight) < MaxInFlight
        /\ balances_by_owner' = WithdrawBalances(caller, balance)
        /\ receipts' = receipts (+) Callbacks(promises)
        /\ in_flight' = in_flight (+) Detached(promises)
        /\ last' = [op |-> "withdraw", ok |-> TRUE, caller |-> caller,
                    balance |-> balance, promises |-> promises]
        /\ UNCHANGED <<config, storage_deposits, vaults, index, nft,
                       ft_deposits, holders, resolve_calls>>

\* Mutant: a transfer that failed gives the amount back to the account.
transfer_settles_Refund(p, succeeded) ==
    /\ BagIn(p, in_flight)
    /\ in_flight' = in_flight (-) SetToBag({p})
    /\ balances_by_owner' =
          IF succeeded THEN balances_by_owner
          ELSE [balances_by_owner EXCEPT ![p.to[1]] = @ + p.amount]
    /\ last' = [op |-> "transfer_settles", ok |-> TRUE, succeeded |-> succeeded,
                to |-> p.to, amount |-> p.amount]
    /\ UNCHANGED <<config, storage_deposits, vaults, index, nft, ft_deposits,
                   holders, receipts, resolve_calls>>

\* The runtime executes a transfer that withdraw dispatched; it succeeds or
\* fails (the receiver is gone, or not registered with mint_currency).  The
\* promise has no callback, so no code of the contract runs.
transfer_settles(p, succeeded) ==
    /\ BagIn(p, in_flight)
    /\ in_flight' = in_flight (-) SetToBag({p})
    /\ last' = [op |-> "transfer_settles", ok |-> TRUE, succeeded |-> succeeded,
                to |-> p.to, amount |-> p.amount]
    /\ UNCHANGED <<config, storage_deposits, vaults, index, nft, ft_deposits,
                   balances_by_owner, holders, receipts, resolve_calls>>

\* ---------------------------------------------------- the ft deposit hook
\* mod ft_balances: the contract is told of `amount` of mint_currency sent to
\* it by sender_id and adds it to the sender's ft_deposits entry.
FtDepositAmounts == {mint_price - 1, mint_price}

ft_on_transfer(sender_id, amount) ==
    /\ mint_currency # NONE
    /\ SumOver(ft_deposits, Accounts) + amount <= MaxFtUnits * mint_price
    /\ ft_deposits' = [ft_deposits EXCEPT ![sender_id] = @ + amount]
    /\ last' = [op |-> "ft_on_transfer", ok |-> TRUE]
    /\ UNCHANGED <<config, storage_deposits, vaults, index, nft,
                   balances_by_owner, holders, receipts, in_flight,
                   resolve_calls>>

\* --------------------------------------------------------------- transfers
\* Mutant: the account the token leaves is never removed.
TransferHolders_KeepsSender(token_owner, receiver_id) ==
    IF tokens_per_owner[receiver_id] = {}
    THEN holders \cup {receiver_id}
    ELSE holders

\* The holders set the three transfer methods write before they hand over to
\* the token library: owner_id is the token's owner, looked up first.
TransferHolders(token_owner, receiver_id) ==
    LET h1 == IF Cardinality(tokens_per_owner[token_owner]) = 1
              THEN holders \ {token_owner}
              ELSE holders
    IN  IF tokens_per_owner[receiver_id] = {}
        THEN h1 \cup {receiver_id}
        ELSE h1

\* The error a transfer panics with, "" when none: the lookup of the wrapper,
\* then assert_one_yocto and internal_transfer of the token library.
TransferError(caller, receiver_id, token_id, deposit) ==
    IF owner_by_id[token_id] = NONE THEN "Token not found"
    ELSE IF deposit # 1 THEN "Requires attached deposit of exactly 1 yoctoNEAR"
    ELSE IF caller # owner_by_id[token_id] /\ caller \notin approvals_by_id[token_id]
         THEN "Sender not approved"
    ELSE IF owner_by_id[token_id] = receiver_id
         THEN "Current and next owner must differ"
    ELSE ""

\* NonFungibleToken::internal_transfer_unguarded
OwnerByIdAfterTransfer(token_id, to) == [owner_by_id EXCEPT ![token_id] = to]

TokensPerOwnerAfterTransfer(token_id, from, to) ==
    [tokens_per_owner EXCEPT ![from] = @ \ {token_id}, ![to] = @ \cup {token_id}]

\* Mutant: the cut is rounded up.
royalty_to_payout_RoundsUp(a, b) == (a * b + 9999) \div 10000

royalty_to_payout(a, b) == (a * b) \div 10000

\* The HashMap nft_transfer_payout fills: the insert for the collection owner,
\* then the insert for the previous owner, which replaces the first when the
\* two are one account.
PayoutEntries(previous_owner_id, balance_u128) ==
    [a \in {owner_id, previous_owner_id} |->
        IF a = previous_owner_id
        THEN royalty_to_payout(10000 - royalty, balance_u128)
        ELSE royalty_to_payout(royalty, balance_u128)]

\* The Option<Payout> nft_transfer_payout returns.
PayoutOf(previous_owner_id, balance) ==
    IF balance = NoBalance
    THEN [some |-> FALSE, payout |-> <<>>]
    ELSE [some |-> TRUE, payout |-> PayoutEntries(previous_owner_id, balance[1])]

\* What nft_transfer_call adds to a transfer: nft_on_transfer on the receiver,
\* then nft_resolve_transfer on this contract.
TransferCallPromises(token_owner, receiver_id, token_id) ==
    << [receiver_id |-> <<receiver_id>>, method |-> "nft_on_transfer",
        to |-> <<receiver_id>>, amount |-> 0,
        then |-> << [method |-> "nft_resolve_transfer",
                     previous_owner_id |-> token_owner,
                     receiver_id |-> receiver_id,
                     token_id |-> token_id,
                     approved_account_ids |-> approvals_by_id[token_id]] >>] >>

PendingTransfers ==
    LET S == {cb \in BagToSet(receipts) : cb.method = "nft_resolve_transfer"}
    IN  SumOver([cb \in S |-> CopiesIn(cb, receipts)], S)

\* nft_transfer, nft_transfer_call and nft_transfer_payout run the same steps;
\* method names the one called, balance is the sale balance given to
\* nft_transfer_payout.
Transfer(method, caller, receiver_id, token_id, deposit, balance) ==
    LET err == TransferError(caller, receiver_id, token_id, deposit)
        token_owner == owner_by_id[token_id]
        promises == IF method = "nft_transfer_call"
                    THEN TransferCallPromises(token_owner, receiver_id, token_id)
                    ELSE <<>>
    IN  /\ (err = "" /\ method = "nft_transfer_call") =>
              PendingTransfers < MaxPendingTransfers
        /\ IF err # ""
           THEN /\ last' = [op |-> method, ok |-> FALSE, error |-> err]
                /\ UNCHANGED <<nft, holders, receipts>>
           ELSE /\ holders' = TransferHolders(token_owner, receiver_id)
                /\ owner_by_id' = OwnerByIdAfterTransfer(token_id, receiver_id)
                /\ tokens_per_owner' =
                      TokensPerOwnerAfterTransfer(token_id, token_owner, receiver_id)
                /\ approvals_by_id' = [approvals_by_id EXCEPT ![token_id] = {}]
                /\ receipts' = receipts (+) Callbacks(promises)
                /\ last' = [op |-> method, ok |-> TRUE, caller |-> caller,
                            previous_owner_id |-> token_owner,
                            receiver_id |-> receiver_id, token_id |-> token_id,
                            promises |-> promises, balance |-> balance,
                            payout |-> IF method = "nft_transfer_payout"
                                       THEN PayoutOf(token_owner, balance)
                                       ELSE PayoutOf(token_owner, NoBalance)]
        /\ UNCHANGED <<config, storage_deposits, vaults, index, ft_deposits,
                       balances_by_owner, in_flight, resolve_calls>>

nft_transfer(caller, receiver_id, token_id, deposit) ==
    Transfer("nft_transfer", caller, receiver_id, token_id, deposit, NoBalance)

nft_transfer_call(caller, receiver_id, token_id, deposit) ==
    Transfer("nft_transfer_call", caller, receiver_id, token_id, deposit, NoBalance)

nft_transfer_payout(caller, receiver_id, token_id, deposit, balance) ==
    Transfer("nft_transfer_payout", caller, receiver_id, token_id, deposit, balance)

\* ------------------------------------------------------------- nft_approve
\* The error NonFungibleToken::nft_approve panics with, "" when none.  A
\* deposit of 1 stands for one that covers the storage of the approval.
ApproveError(caller, token_id, deposit) ==
    IF deposit < 1 THEN "Requires attached deposit of at least 1 yoctoNEAR"
    ELSE IF owner_by_id[token_id] = NONE THEN "Token not found"
    ELSE IF caller # owner_by_id[token_id] THEN "Predecessor must be token owner."
    ELSE ""

\* nft_approve without msg: the owner of the token adds account_id to the
\* accounts approved for it.
nft_approve(caller, token_id, account_id, deposit) ==
    LET err == ApproveError(caller, token_id, deposit)
    IN  /\ IF err # ""
           THEN /\ last' = [op |-> "nft_approve", ok |-> FALSE, error |-> err]
                /\ UNCHANGED approvals_by_id
           ELSE /\ account_id \notin approvals_by_id[token_id]
                /\ approvals_by_id' =
                      [approvals_by_id EXCEPT ![token_id] = @ \cup {account_id}]
                /\ last' = [op |-> "nft_approve", ok |-> TRUE, caller |-> caller,
                            token_id |-> token_id, account_id |-> account_id]
        /\ UNCHANGED <<config, storage_deposits, vaults, index, owner_by_id,
                       tokens_per_owner, ft_deposits, balances_by_owner,
                       holders, receipts, in_flight, resolve_calls>>

\* ---------------------------------------------------- nft_resolve_transfer
\* must_revert: the receiver's nft_on_transfer failed or asked for the return.
\* The token goes back only if the receiver still owns it.
ResolveReturns(cb, must_revert) ==
    must_revert /\ owner_by_id[cb.token_id] = cb.receiver_id

nft_resolve_transfer(cb, must_revert) ==
    /\ BagIn(cb, receipts)
    /\ cb.method = "nft_resolve_transfer"
    /\ receipts' = receipts (-) SetToBag({cb})
    /\ IF ResolveReturns(cb, must_revert)
       THEN /\ owner_by_id' = OwnerByIdAfterTransfer(cb.token_id, cb.previous_owner_id)
            /\ tokens_per_owner' =
                  TokensPerOwnerAfterTransfer(cb.token_id, cb.receiver_id,
                                              cb.previous_owner_id)
            /\ approvals_by_id' =
                  [approvals_by_id EXCEPT ![cb.token_id] = cb.approved_account_ids]
       ELSE UNCHANGED nft
    /\ last' = [op |-> "nft_resolve_transfer", ok |-> TRUE,
                returned |-> ResolveReturns(cb, must_revert),
                previous_owner_id |-> cb.previous_owner_id,
                receiver_id |-> cb.receiver_id, token_id |-> cb.token_id]
    /\ UNCHANGED <<config, storage_deposits, vaults, index, ft_deposits,
                   balances_by_owner, holders, in_flight, resolve_calls>>

\* -------------------------------------------------------------------- Next
\* index < n while nothing else caps it
MintBound(n) == total_supply = 0 => index < n

\* The calls of the accounts of A, at most n mints when the supply is not capped.
MintCalls(A, n) ==
    \E caller \in A, token_id \in TokenIds, token_owner_id \in A,
       deposit \in MintDeposits :
       MintBound(n) /\ nft_mint(caller, token_id, token_owner_id, deposit)

StorageCalls(A) ==
    \E caller \in A, account_id \in A \cup {NONE}, deposit \in StorageDepositAmounts :
       storage_deposit(caller, account_id, deposit)

BurnCalls(A) ==
    \E caller \in A, token_id \in TokenIds, wraps \in BOOLEAN :
       burn(caller, token_id, wraps)

WithdrawCalls(A) == \E caller \in A : withdraw(caller)

FtDeposits(A) ==
    \E sender_id \in A, amount \in FtDepositAmounts : ft_on_transfer(sender_id, amount)

TransferCalls(A) ==
    \E caller \in A, receiver_id \in A, token_id \in TokenIds, deposit \in {0, 1} :
       nft_transfer(caller, receiver_id, token_id, deposit)

TransferCallCalls(A) ==
    \E caller \in A, receiver_id \in A, token_id \in TokenIds, deposit \in {0, 1} :
       nft_transfer_call(caller, receiver_id, token_id, deposit)

TransferPayoutCalls(A, B) ==
    \E caller \in A, receiver_id \in A, token_id \in TokenIds, deposit \in {0, 1},
       balance \in B :
       nft_transfer_payout(caller, receiver_id, token_id, deposit, balance)

ApproveCalls(A) ==
    \E caller \in A, token_id \in TokenIds, account_id \in A, deposit \in {0, 1} :
       account_id # caller /\ nft_approve(caller, token_id, account_id, deposit)

\* The runtime runs a scheduled callback.
RunResolveCreate ==
    \E cb \in BagToSet(receipts), chain_ok \in BOOLEAN : resolve_create(cb, chain_ok)

SettleTransfer ==
    \E p \in BagToSet(in_flight), succeeded \in BOOLEAN : transfer_settles(p, succeeded)

RunResolveTransfer ==
    \E cb \in BagToSet(receipts), must_revert \in BOOLEAN :
       nft_resolve_transfer(cb, must_revert)

\* Mint, burn, withdrawal and the three transfers with every callback, two
\* accounts calling.
Next ==
    \/ MintCalls(Users, MaxIndexFull)
    \/ RunResolveCreate
    \/ BurnCalls(Users)
    \/ WithdrawCalls(Users)
    \/ SettleTransfer
    \/ FtDeposits(Users)
    \/ TransferCalls(Users)
    \/ TransferCallCalls(Users)
    \/ TransferPayoutCalls(Users, SomeSaleBalances)
    \/ RunResolveTransfer

Spec == Init /\ [][Next]_vars

\* Mint, burn and withdrawal with the resolve_create callbacks, three accounts
\* calling.
NextBurn ==
    \/ MintCalls(Accounts, MaxIndexFull)
    \/ RunResolveCreate
    \/ BurnCalls(Accounts)
    \/ WithdrawCalls(Accounts)
    \/ SettleTransfer
    \/ FtDeposits(Accounts)

SpecBurn == Init /\ [][NextBurn]_vars

\* Mint, burn and withdrawal with the resolve_create callbacks, two accounts
\* calling.
NextMint ==
    \/ MintCalls(Users, MaxIndex)
    \/ RunResolveCreate
    \/ BurnCalls(Users)
    \/ WithdrawCalls(Users)
    \/ SettleTransfer
    \/ FtDeposits(Users)

SpecMint == Init /\ [][NextMint]_vars

\* Mint and burn, the runtime running every scheduled callback.
NextResolve ==
    \/ MintCalls(Users, MaxIndexFull)
    \/ RunResolveCreate
    \/ BurnCalls(Users)
    \/ FtDeposits(Users)

LiveSpec == Init /\ [][NextResolve]_vars /\ WF_vars(RunResolveCreate)

\* Mint, burn and the transfers that schedule nothing, two accounts calling.
NextHolders ==
    \/ MintCalls(Users, MaxIndex)
    \/ BurnCalls(Users)
    \/ TransferCalls(Users)
    \/ TransferPayoutCalls(Users, SomeSaleBalances)
    \/ FtDeposits(Users)

SpecHolders == Init /\ [][NextHolders]_vars

\* Storage deposits among mints, burns and withdrawals, two accounts calling.
NextStorage ==
    \/ StorageCalls(Users)
    \/ MintCalls(Users, MaxIndexFull)
    \/ BurnCalls(Users)
    \/ WithdrawCalls(Users)
    \/ SettleTransfer

SpecStorage == Init /\ [][NextStorage]_vars

\* Sales of minted tokens, under each royalty and with each sale balance.
NextRoyalty ==
    \/ MintCalls(Users, MaxIndexFull)
    \/ FtDeposits(Users)
    \/ TransferPayoutCalls(Users, SaleBalances)

SpecRoyalty == InitRoyalty /\ [][NextRoyalty]_vars

\* Mints paid in NEAR, approvals and the three transfers with their callbacks,
\* two accounts calling.
NextTransfer ==
    \/ MintCalls(Users, MaxIndexFull)
    \/ ApproveCalls(Users)
    \/ TransferCalls(Users)
    \/ TransferCallCalls(Users)
    \/ TransferPayoutCalls(Users, SomeSaleBalances)
    \/ RunResolveTransfer

SpecTransfer == Init /\ [][NextTransfer]_vars

\* ================================================================== claims
\* what the state other than `last` is made of
contract == <<config, index, nft, storage_deposits, ft_deposits,
              balances_by_owner, holders, receipts, in_flight, resolve_calls,
              vaults>>

\* C1: after every operation an account is in holders if and only if it owns
\* at least one token (its tokens_per_owner bucket is not empty).
C1_HoldersIffOwners ==
    \A a \in Accounts : a \in holders <=> tokens_per_owner[a] # {}

\* C2: the increases one successful burn makes to balances_by_owner sum to at
\* most mint_price * payment_split_percent * burn_fee / 20000, and to 0 when no
\* holder remains.
C2_BurnSumBounded ==
    [][ (last'.op = "burn" /\ last'.ok) =>
          LET credit == SumOver(balances_by_owner', Accounts)
                        - SumOver(balances_by_owner, Accounts)
          IN  /\ credit <= (mint_price * payment_split_percent * burn_fee) \div 20000
              /\ last'.holders_count = 0 => credit = 0 ]_vars

\* C3: a successful burn leaves the burner's own balance alone, credits every
\* other member of holders exactly amount_to_holder, and credits as many
\* accounts as the divisor holders_count.
C3_BurnCreditsOthers ==
    [][ (last'.op = "burn" /\ last'.ok) =>
          LET owner == last'.caller
              others == holders' \ {owner}
          IN  /\ balances_by_owner'[owner] = balances_by_owner[owner]
              /\ \A a \in others :
                    balances_by_owner'[a] = balances_by_owner[a] + last'.amount_to_holder
              /\ Cardinality(others) = last'.holders_count ]_vars

\* C4 as claimed: the dividend of a burn divides by the size of holders after
\* the burner was removed from it if and only if the token was their last.
C4_DivisorIsHoldersSize ==
    (last.op = "burn" /\ last.ok) =>
        LET n == Cardinality(holders)
            total == (mint_price * payment_split_percent * burn_fee) \div 20000
        IN  /\ last.removed <=> tokens_per_owner[last.caller] = {}
            /\ last.holders_count = n
            /\ last.amount_to_holder = IF n = 0 THEN 0 ELSE total \div n

\* C4, amended: the divisor is the size of holders after the burner was removed
\* from it if and only if the token was their last, less one (a u128
\* subtraction) when the burner was not removed.
C4_DivisorExcludesBurner ==
    (last.op = "burn" /\ last.ok) =>
        LET n == Cardinality(holders)
            total == (mint_price * payment_split_percent * burn_fee) \div 20000
            count == IF last.removed THEN n
                     ELSE IF n = 0 THEN U128_MAX ELSE n - 1
        IN  /\ last.removed <=> tokens_per_owner[last.caller] = {}
            /\ last.removed => last.caller \notin holders
            /\ last.holders_count = count
            /\ last.amount_to_holder = IF count = 0 THEN 0 ELSE (total \div count)

C4_Witness ==
    /\ last.op = "burn" /\ last.ok
    /\ ~last.removed
    /\ last.holders_count = 1
    /\ last.amount_to_holder > 0

\* C5: with total_supply = N > 0 the index never exceeds N; a mint called at
\* index = N fails and changes nothing (no token, same index, same holders, no
\* callback scheduled); a burn leaves the index alone.
C5_SupplyCap ==
    /\ [](total_supply > 0 => index <= total_supply)
    /\ [][ (last'.op = "nft_mint" /\ total_supply > 0 /\ index = total_supply) =>
             (~last'.ok /\ UNCHANGED contract) ]_vars
    /\ [][ last'.op = "burn" => index' = index ]_vars

C5_Witness ==
    /\ last.op = "nft_mint" /\ ~last.ok
    /\ last.error = "Exceeded total supply"
    /\ total_supply > 0 /\ index = total_supply
    /\ \E t \in TokenIds : owner_by_id[t] = NONE

\* C6: a mint succeeds only if the payment check passes (no mint_currency: the
\* deposit covers mint_price + minimum_needed; with one: the deposit covers
\* minimum_needed and the caller's ft_deposits entry covers mint_price); a mint
\* that fails persists nothing.
C6_MintNeedsPayment ==
    /\ [][ (last'.op = "nft_mint" /\ last'.ok) =>
             IF mint_currency = NONE
             THEN last'.deposit >= mint_price + minimum_needed
             ELSE /\ last'.deposit >= minimum_needed
                  /\ ft_deposits[last'.caller] >= mint_price ]_vars
    /\ [][ (last'.op = "nft_mint" /\ ~last'.ok) => UNCHANGED contract ]_vars

C6_Witness ==
    /\ last.op = "nft_mint" /\ ~last.ok
    /\ last.error = "Insufficient price to mint"
    /\ mint_currency # NONE
    /\ \E a \in Accounts : ft_deposits[a] = mint_price - 1

\* C7: a successful mint hands resolve_create vault_amount = mint_price *
\* payment_split_percent / 100 and owner_amount = mint_price - vault_amount for
\* the vault of the minted token; resolve_create sends owner_amount to the
\* collection owner and vault_amount to that vault (100 at 80 percent: 80 and 20).
C7_MintSplit ==
    LET va == (mint_price * payment_split_percent) \div 100
        oa == mint_price - va
    IN  /\ (last.op = "nft_mint" /\ last.ok) =>
              /\ Len(last.promises) = 1
              /\ Len(last.promises[1].then) = 1
              /\ LET cb == last.promises[1].then[1]
                 IN  /\ cb.method = "resolve_create"
                     /\ cb.vault_account_id = <<last.token_id, current_id>>
                     /\ cb.collection_owner = owner_id
                     /\ cb.vault_amount = va
                     /\ cb.owner_amount = oa
                     /\ cb.vault_amount + cb.owner_amount = mint_price
        /\ last.op = "resolve_create" =>
              /\ last.cb.vault_amount = va /\ last.cb.owner_amount = oa
              /\ \E i \in DOMAIN last.promises :
                    /\ last.promises[i].to = last.cb.vault_account_id
                    /\ last.promises[i].method
                          = (IF mint_currency = NONE THEN "deposit_near"
                             ELSE "ft_transfer_call")
                    /\ last.promises[i].amount = va
              /\ \E i \in DOMAIN last.promises :
                    /\ last.promises[i].to = <<owner_id>>
                    /\ last.promises[i].method
                          = (IF mint_currency = NONE THEN "transfer" ELSE "ft_transfer")
                    /\ last.promises[i].amount = oa
              /\ (mint_price = 100 /\ payment_split_percent = 80) =>
                    (va = 80 /\ oa = 20)

C7_Witness ==
    /\ last.op = "resolve_create"
    /\ mint_price = 100 /\ payment_split_percent = 80 /\ mint_currency = NONE
    /\ index = 1
    /\ \E i \in DOMAIN last.promises :
          last.promises[i].method = "deposit_near" /\ last.promises[i].amount = 80
    /\ \E i \in DOMAIN last.promises :
          last.promises[i].method = "transfer" /\ last.promises[i].amount = 20

\* C8: every successful mint is eventually followed by exactly one
\* resolve_create for its vault, whether the provisioning chain succeeded or
\* failed; resolve_create issues the same calls in both cases and schedules
\* nothing further.
C8_ResolveOnce ==
    /\ \A m \in 1..MaxIndexFull :
          [](Len(resolve_calls) >= m =>
                <>(Len(resolve_calls) >= m /\ resolve_calls[m] = 1))
    /\ [](\A m \in DOMAIN resolve_calls : resolve_calls[m] <= 1)
    /\ [][ (last'.op = "nft_mint" /\ last'.ok) =>
             /\ Len(resolve_calls') = index'
             /\ receipts' = receipts (+) SetToBag({last'.promises[1].then[1]})
             /\ last'.promises[1].then[1].mint = index' ]_vars
    /\ [][ last'.op = "resolve_create" =>
             /\ \A i \in DOMAIN last'.promises : last'.promises[i].then = <<>>
             /\ Len(last'.promises) = (IF mint_currency = NONE THEN 2 ELSE 3)
             /\ \A i \in DOMAIN last'.promises :
                   /\ last'.promises[i].amount
                         \in {0, last'.cb.owner_amount, last'.cb.vault_amount}
                   /\ last'.promises[i].to
                         \in {last'.cb.vault_account_id, <<owner_id>>}
             /\ receipts' = receipts (-) SetToBag({last'.cb}) ]_vars

C8_Witness ==
    /\ last.op = "resolve_create"
    /\ ~last.chain_ok
    /\ resolve_calls[last.cb.mint] = 1
    /\ Len(last.promises) >= 2

\* C9: a successful mint creates the token with its owner and adds exactly 1 to
\* index; resolve_create, whatever the outcome of the provisioning chain,
\* leaves the tokens, the index and holders alone; index never decreases.
C9_TokenSurvivesChain ==
    /\ [][ (last'.op = "nft_mint" /\ last'.ok) =>
             /\ index' = index + 1
             /\ owner_by_id'[last'.token_id] = last'.token_owner_id
             /\ last'.token_id \in tokens_per_owner'[last'.token_owner_id] ]_vars
    /\ [][ last'.op = "resolve_create" =>
             UNCHANGED <<index, owner_by_id, tokens_per_owner, holders>> ]_vars
    /\ [][ index' >= index ]_vars

C9_Witness ==
    /\ last.op = "resolve_create"
    /\ ~last.chain_ok
    /\ owner_by_id[last.cb.vault_account_id[1]] # NONE
    /\ index = last.cb.mint

\* C10: withdraw with a balance b > 0 dispatches one transfer of b to the
\* caller (ft_transfer on mint_currency, else a native transfer), zeroes the
\* caller's entry and no other; with a balance of 0 it dispatches nothing and
\* changes nothing; so the entry is 0 after every withdraw.
C10_Withdraw ==
    /\ [][ last'.op = "withdraw" =>
             LET c == last'.caller
                 b == balances_by_owner[c]
             IN  /\ last'.ok /\ last'.balance = b
                 /\ UNCHANGED <<config, storage_deposits, vaults, index, nft,
                                ft_deposits, holders, receipts, resolve_calls>>
                 /\ in_flight' = in_flight (+) Detached(last'.promises)
                 /\ IF b > 0
                    THEN /\ Len(last'.promises) = 1
                         /\ last'.promises[1].to = <<c>>
                         /\ last'.promises[1].amount = b
                         /\ last'.promises[1].then = <<>>
                         /\ IF mint_currency = NONE
                            THEN /\ last'.promises[1].method = "transfer"
                                 /\ last'.promises[1].receiver_id = <<c>>
                            ELSE /\ last'.promises[1].method = "ft_transfer"
                                 /\ last'.promises[1].receiver_id = <<mint_currency>>
                         /\ balances_by_owner' = [balances_by_owner EXCEPT ![c] = 0]
                    ELSE /\ last'.promises = <<>>
                         /\ balances_by_owner' = balances_by_owner ]_vars
    /\ [](last.op = "withdraw" => balances_by_owner[last.caller] = 0)

C10_Witness ==
    /\ last.op = "withdraw"
    /\ last.balance > 0
    /\ balances_by_owner[last.caller] = 0
    /\ \E a \in Accounts : balances_by_owner[a] > 0

\* C11: a withdraw that dispatched a transfer leaves the caller's entry at 0 and
\* schedules no callback; the settling of the transfer, failed or not, changes
\* nothing of the contract; an entry grows only in a successful burn by another
\* account.
C11_WithdrawCommitted ==
    /\ [][ (last'.op = "withdraw" /\ last'.balance > 0) =>
             /\ balances_by_owner'[last'.caller] = 0
             /\ receipts' = receipts
             /\ \A i \in DOMAIN last'.promises : last'.promises[i].then = <<>> ]_vars
    /\ [][ last'.op = "transfer_settles" =>
             UNCHANGED <<config, storage_deposits, vaults, index, nft,
                         ft_deposits, balances_by_owner, holders, receipts,
                         resolve_calls>> ]_vars
    /\ [][ \A a \in Accounts :
             balances_by_owner'[a] > balances_by_owner[a] =>
                (last'.op = "burn" /\ last'.ok /\ last'.caller # a) ]_vars

C11_Witness ==
    /\ last.op = "transfer_settles"
    /\ ~last.succeeded
    /\ last.amount > 0
    /\ balances_by_owner[last.to[1]] = 0

\* C12: storage_deposit with a payment below STORAGE_PER_SALE fails and changes
\* nothing; with a payment of at least that it adds exactly the payment to the
\* entry of account_id, or of the caller when none is given, and changes nothing
\* else; no step decreases a storage_deposits entry.
C12_StorageDeposit ==
    /\ [][ last'.op = "storage_deposit" =>
             IF last'.ok
             THEN LET target == IF last'.account_id = NONE THEN last'.caller
                                ELSE last'.account_id
                  IN  /\ last'.deposit >= STORAGE_PER_SALE
                      /\ storage_deposits' =
                            [storage_deposits EXCEPT ![target] = @ + last'.deposit]
                      /\ UNCHANGED <<config, index, nft, ft_deposits,
                                     balances_by_owner, holders, receipts,
                                     in_flight, resolve_calls, vaults>>
             ELSE UNCHANGED contract ]_vars
    /\ [][ \A a \in Accounts : storage_deposits'[a] >= storage_deposits[a] ]_vars
    /\ [][ last'.op # "storage_deposit" => UNCHANGED storage_deposits ]_vars

C12_Witness ==
    /\ last.op = "storage_deposit" /\ last.ok
    /\ last.account_id # NONE /\ last.account_id # last.caller
    /\ storage_deposits[last.account_id] = 2 * STORAGE_PER_SALE
    /\ storage_deposits[last.caller] = 0

\* C13: with collection_cut = royalty * balance / 10000 and seller_cut =
\* (10000 - royalty) * balance / 10000, both truncating, the two cuts sum to at
\* most the balance and collection_cut is the floor of royalty * balance / 10000;
\* these are the amounts a sale reports.
C13_RoyaltySplit ==
    (last.op = "nft_transfer_payout" /\ last.ok /\ last.payout.some) =>
        LET balance == last.balance[1]
            collection_cut == royalty_to_payout(royalty, balance)
            seller_cut == royalty_to_payout(10000 - royalty, balance)
        IN  /\ royalty \in 0..10000
            /\ seller_cut + collection_cut <= balance
            /\ collection_cut * 10000 <= royalty * balance
            /\ royalty * balance < (collection_cut + 1) * 10000
            /\ seller_cut * 10000 <= (10000 - royalty) * balance
            /\ (10000 - royalty) * balance < (seller_cut + 1) * 10000
            /\ last.payout.payout[last.previous_owner_id] = seller_cut
            /\ last.previous_owner_id # owner_id =>
                  last.payout.payout[owner_id] = collection_cut

C13_Witness ==
    /\ last.op = "nft_transfer_payout" /\ last.ok /\ last.payout.some
    /\ royalty = 3333 /\ last.balance = <<10001>>
    /\ last.previous_owner_id # owner_id
    /\ last.payout.payout[owner_id] = 3333
    /\ last.payout.payout[last.previous_owner_id] = 6667

\* C14: nft_transfer_payout with a sale balance returns a mapping with the
\* collection owner at collection_cut and the previous owner at seller_cut,
\* whoever the previous owner is; without a balance it returns no mapping and
\* still transfers the token and updates holders.
C14_PayoutReportsBothCuts ==
    (last.op = "nft_transfer_payout" /\ last.ok) =>
        IF last.payout.some
        THEN LET balance == last.balance[1] IN
             /\ last.payout.payout[owner_id] = (royalty * balance) \div 10000
             /\ last.payout.payout[last.previous_owner_id]
                   = ((10000 - royalty) * balance) \div 10000
        ELSE /\ last.balance = NoBalance
             /\ owner_by_id[last.token_id] = last.receiver_id
             /\ last.receiver_id \in holders

\* C15: a burn succeeds only for a token that exists and is owned by the
\* caller; a burn that fails changes nothing: tokens, owners, holders,
\* balances_by_owner, and no call is dispatched.
C15_BurnNeedsOwner ==
    /\ [][ (last'.op = "burn" /\ last'.ok) =>
             /\ owner_by_id[last'.token_id] # NONE
             /\ owner_by_id[last'.token_id] = last'.caller ]_vars
    /\ [][ (last'.op = "burn" /\ ~last'.ok) => UNCHANGED contract ]_vars

C15_Witness ==
    /\ last.op = "burn" /\ ~last.ok
    /\ last.error = "You don't own this NFT"
    /\ \E t \in TokenIds : owner_by_id[t] # NONE
    /\ holders # {}

\* C16: nft_mint succeeds only when its caller is the owner_id given to new.
C16_OnlyOwnerMints ==
    [][ (last'.op = "nft_mint" /\ last'.ok) => last'.caller = owner_id ]_vars

\* C17: only the deposit hook writes ft_deposits; a successful mint paid in
\* mint_currency leaves the caller's entry as it was, at mint_price or more, and
\* its resolve_create sends mint_price of the currency out of the contract.
C17_FtDepositsNeverSpent ==
    /\ [][ last'.op # "ft_on_transfer" => UNCHANGED ft_deposits ]_vars
    /\ [][ (last'.op = "nft_mint" /\ last'.ok /\ mint_currency # NONE) =>
             /\ ft_deposits' = ft_deposits
             /\ ft_deposits'[last'.caller] >= mint_price ]_vars
    /\ [][ (last'.op = "resolve_create" /\ mint_currency # NONE) =>
             LET P == last'.promises
                 sent == {i \in DOMAIN P :
                             P[i].method \in {"ft_transfer", "ft_transfer_call"}}
             IN  /\ \A i \in sent : P[i].receiver_id = <<mint_currency>>
                 /\ SumOver([i \in sent |-> P[i].amount], sent) = mint_price ]_vars

C17_Witness ==
    /\ last.op = "nft_mint" /\ last.ok
    /\ mint_currency # NONE
    /\ index = 2
    /\ SumOver(ft_deposits, Accounts) = mint_price
    /\ ft_deposits[last.caller] = mint_price

\* C18: a successful nft_transfer, nft_transfer_call or nft_transfer_payout, by
\* the owner or by an approved account, removes the account the token leaves
\* from holders exactly when it keeps no token and adds the receiver exactly
\* when it owned none, so it keeps holders equal to the token owners when they
\* were; a transfer that fails leaves holders (and all else) unchanged.
C18_TransferKeepsHolders ==
    [][ last'.op \in {"nft_transfer", "nft_transfer_call", "nft_transfer_payout"} =>
          IF last'.ok
          THEN LET from == last'.previous_owner_id
                   to == last'.receiver_id
               IN  /\ from = owner_by_id[last'.token_id]
                   /\ to = owner_by_id'[last'.token_id]
                   /\ from # to
                   /\ holders' =
                         (IF tokens_per_owner'[from] = {}
                          THEN holders \ {from} ELSE holders)
                         \cup
                         (IF tokens_per_owner[to] = {} THEN {to} ELSE {})
                   /\ (\A a \in Accounts : a \in holders <=> tokens_per_owner[a] # {})
                         => (\A a \in Accounts :
                                a \in holders' <=> tokens_per_owner'[a] # {})
          ELSE UNCHANGED contract ]_vars

C18_Witness ==
    /\ last.op \in {"nft_transfer", "nft_transfer_call", "nft_transfer_payout"}
    /\ last.ok
    /\ last.caller # last.previous_owner_id
    /\ tokens_per_owner[last.previous_owner_id] = {}
    /\ last.previous_owner_id \notin holders
    /\ holders = {last.receiver_id}

\* C19: every successful burn dispatches exactly one withdraw call, to the
\* vault of the burned token; the burn of the only token of the only holder
\* empties holders, computes holders_count = 0 and a dividend of 0, credits
\* nobody and dispatches the call all the same.
C19_BurnAlwaysWithdraws ==
    /\ [][ (last'.op = "burn" /\ last'.ok) =>
             /\ Len(last'.promises) = 1
             /\ last'.promises[1].method = "withdraw"
             /\ last'.promises[1].receiver_id = <<last'.token_id, current_id>>
             /\ last'.promises[1].then = <<>> ]_vars
    /\ [][ (/\ last'.op = "burn" /\ last'.ok
            /\ holders = {last'.caller}
            /\ tokens_per_owner[last'.caller] = {last'.token_id}) =>
             /\ holders' = {}
             /\ last'.removed
             /\ last'.holders_count = 0
             /\ last'.amount_to_holder = 0
             /\ balances_by_owner' = balances_by_owner
             /\ Len(last'.promises) = 1 ]_vars

C19_Witness ==
    /\ last.op = "burn" /\ last.ok
    /\ last.removed
    /\ holders = {}
    /\ last.holders_count = 0 /\ last.amount_to_holder = 0
    /\ \A t \in TokenIds : owner_by_id[t] = NONE
    /\ Len(last.promises) = 1

\* C20: the vault address is a function of token_id and the contract address,
\* distinct token ids give distinct addresses, and no successful mint issues a
\* provisioning chain for an address an earlier mint issued one for.
C20_OneVaultPerToken ==
    /\ [](\A t, u \in TokenIds : t # u => VaultAccountId(t) # VaultAccountId(u))
    /\ [][ (last'.op = "nft_mint" /\ last'.ok) =>
             /\ last'.promises[1].receiver_id = VaultAccountId(last'.token_id)
             /\ last'.promises[1].receiver_id \notin vaults ]_vars

\* C21: once nft_resolve_transfer has returned a token to its previous owner,
\* the previous owner is in holders if and only if they own a token and the
\* receiver is in holders only if they own one; the same holds of the two
\* accounts of every transfer whose nft_resolve_transfer is still to run.
C21_ResolveKeepsHolders ==
    LET Matches(previous_owner_id, receiver_id) ==
            /\ previous_owner_id \in holders
                  <=> tokens_per_owner[previous_owner_id] # {}
            /\ receiver_id \in holders => tokens_per_owner[receiver_id] # {}
    IN  /\ (last.op = "nft_resolve_transfer" /\ last.returned) =>
              Matches(last.previous_owner_id, last.receiver_id)
        /\ \A cb \in BagToSet(receipts) :
              cb.method = "nft_resolve_transfer" =>
                 Matches(cb.previous_owner_id, cb.receiver_id)

\* C22: in every reachable state, a burn by the owner of a token that leaves
\* the owner with another token (removed == false) finds holders non-empty, so
\* holders_count = holders.len() - 1 does not go below 0.
C22_BurnNeverUnderflows ==
    \A t \in TokenIds :
       LET owner == owner_by_id[t]
       IN  (owner # NONE /\ ~BurnRemoved(owner, t)) =>
              /\ holders # {}
              /\ ~BurnUnderflow(owner, t)

\* C23: a successful burn increases the balances_by_owner entry only of
\* accounts that own a token when the burn is called, and it credits every
\* account other than the burner that owns a token then with amount_to_holder.
C23_DividendsToOwners ==
    [][ (last'.op = "burn" /\ last'.ok) =>
          \A a \in Accounts :
             /\ balances_by_owner'[a] > balances_by_owner[a] =>
                   tokens_per_owner[a] # {}
             /\ (a # last'.caller /\ tokens_per_owner[a] # {}) =>
                   /\ a \in BurnCredited(holders', last'.caller)
                   /\ balances_by_owner'[a] =
                         balances_by_owner[a] + last'.amount_to_holder ]_vars
====
